---- MODULE Spec2Model ----
(***************************************************************************)
(* A model of the fidelity conditioning of DoodlePix:                      *)
(*   - _encode_prompt (src/DoodlePix/fidelity_mlp.py, lines 86-147): the   *)
(*     extraction of the fidelity value from the prompt and the prepending *)
(*     of the fidelity embedding to the text embeddings;                   *)
(*   - InferenceHandler (src/DoodlePix/inference.py): the session that     *)
(*     loads the pipeline and attaches the FidelityMLP, and generate_image *)
(*     with its prompt edits, its seeding and its progress callback, and   *)
(*     change_scheduler;                                                   *)
(*   - FidelityMLP.save_pretrained and from_pretrained;                    *)
(*   - the DoodlePix window (src/DoodlePix/main.py) with its worker        *)
(*     threads, and the DrawingArea (src/DoodlePix/draw.py) with its undo  *)
(*     history.                                                            *)
(* Python floats are IEEE-754 binary64 values; they are modelled exactly,  *)
(* as naturals counted in units of 2^-64 and held in five 15-bit limbs,    *)
(* with round-to-nearest-even after every arithmetic operation.            *)
(***************************************************************************)
EXTENDS Integers, Sequences, FiniteSets, TLC

VARIABLES
    pc,                     \* "call" before _encode_prompt runs, "done" after
    prompt,                 \* the prompt argument: [kind, items]
    model_max_length,       \* tokenizer.model_max_length (columns of the text embeddings)
    num_images_per_prompt,  \* the num_images_per_prompt argument
    fidelity_val,           \* the local fidelity_val of _encode_prompt
    encoded,                \* what _encode_prompt returned: [status, embeds]
    pipeline,               \* InferenceHandler.pipeline: NoPipeline or [model, scheduler, fidelity_mlp, optimized]
    setup_done,             \* InferenceHandler._setup_done
    loaded,                 \* what the last load_model call was given and returned
    changed,                \* the change_scheduler calls: how many, and the last one
    props,                  \* the request object handed to generate_image
    made,                   \* the values the caller builds its request objects from
    drawing,                \* the drawing handed to generate_image
    gen,                    \* the generate_image call in progress, or the last one
    prev,                   \* the call before it, kept while the inputs are repeated
    torch_rng,              \* torch's default generator: its seed and how often it was drawn from
    calls,                  \* the number of generate_image calls so far
    ui,                     \* the DoodlePix window: its widgets, worker threads and queued signals
    area,                   \* the DrawingArea: its layer and its undo and redo stacks
    mlp                     \* a FidelityMLP, the directory it is saved to and what is loaded back

vars == <<pc, prompt, model_max_length, num_images_per_prompt, fidelity_val,
          encoded, pipeline, setup_done, loaded, changed,
          props, made, drawing, gen, prev, torch_rng, calls, ui, area, mlp>>

encodeVars == <<pc, prompt, model_max_length, num_images_per_prompt, fidelity_val, encoded>>
handlerVars == <<pipeline, setup_done, loaded, changed>>
generateVars == <<props, made, drawing, gen, prev, torch_rng, calls>>
windowVars == <<ui, area>>

\* no window: no widget, no worker thread, no signal
NoUI == [generate_btn |-> FALSE, reload_cb |-> FALSE, started |-> 0, sampling |-> 0,
         loaders |-> <<>>, signals |-> 0]

\* no DrawingArea
NoArea == [layer |-> 0, history |-> <<>>, redo_stack |-> <<>>, drawing |-> FALSE,
           last |-> "none", before |-> 0, edits |-> 0, strokes |-> 0]

NoWindow == ui = NoUI /\ area = NoArea

\* a file that is not there
NoConfig == [present |-> FALSE, hidden_size |-> 0]

NoWeights == [present |-> FALSE, dtype |-> "", params |-> <<>>]

NoModule == [hidden_size |-> 0, dtype |-> "", params |-> <<>>]

NoStore == [config |-> NoConfig, weights |-> NoWeights]

NotRestored == [raised |-> "", module |-> NoModule]

\* no FidelityMLP is saved or loaded
NoPersist == mlp = [pc |-> "idle", module |-> NoModule, store |-> NoStore,
                    saved |-> FALSE, result |-> NotRestored]

----------------------------------------------------------------------------
(* Python float arithmetic (binary64).  A value x >= 0 is the natural      *)
(* x * 2^64, written little-endian in limbs of 15 bits.  Every float that  *)
(* _encode_prompt computes is 0 or lies in [2^-4, 2^4), so it is a         *)
(* multiple of 2^-56 and fits.                                             *)

Precision == 53

Limbs == 1..5

Base == 2^15

BZero == <<0, 0, 0, 0, 0>>

\* The integer n (0 <= n < 2^11) as a float: n * 2^64 = (16 n) * 2^60.
BUnits(n) == <<0, 0, 0, 0, 16 * n>>

\* a + b, limb by limb with the carry
BAdd(a, b) ==
    LET s1 == a[1] + b[1]
        s2 == a[2] + b[2] + (s1 \div Base)
        s3 == a[3] + b[3] + (s2 \div Base)
        s4 == a[4] + b[4] + (s3 \div Base)
        s5 == a[5] + b[5] + (s4 \div Base)
    IN  <<s1 % Base, s2 % Base, s3 % Base, s4 % Base, s5 % Base>>

\* a * k for a small natural k
BMul(a, k) ==
    LET p1 == a[1] * k
        p2 == a[2] * k + (p1 \div Base)
        p3 == a[3] * k + (p2 \div Base)
        p4 == a[4] * k + (p3 \div Base)
        p5 == a[5] * k + (p4 \div Base)
    IN  <<p1 % Base, p2 % Base, p3 % Base, p4 % Base, p5 % Base>>

\* Long division by a small k, from the most significant limb down:
\* the quotient's limbs and, sixth, the remainder.
BDivMod(a, k) ==
    LET d5 == a[5]
        d4 == (d5 % k) * Base + a[4]
        d3 == (d4 % k) * Base + a[3]
        d2 == (d3 % k) * Base + a[2]
        d1 == (d2 % k) * Base + a[1]
    IN  <<d1 \div k, d2 \div k, d3 \div k, d4 \div k, d5 \div k, d1 % k>>

RECURSIVE BLessFrom(_, _, _)
BLessFrom(a, b, i) ==
    IF i = 0 THEN FALSE
    ELSE IF a[i] # b[i] THEN a[i] < b[i]
    ELSE BLessFrom(a, b, i - 1)

BLess(a, b) == BLessFrom(a, b, 5)

BLeq(a, b) == ~BLess(b, a)

BitLen(a) ==
    LET top == CHOOSE i \in Limbs : a[i] # 0 /\ \A j \in Limbs : j > i => a[j] = 0
        n == CHOOSE m \in 1..15 : 2^(m - 1) <= a[top] /\ a[top] < 2^m
    IN  15 * (top - 1) + n

LimbOf(s, i) == IF i = (s \div 15) + 1 THEN 2^(s % 15) ELSE 0

BPow2(s) == <<LimbOf(s, 1), LimbOf(s, 2), LimbOf(s, 3), LimbOf(s, 4), LimbOf(s, 5)>>

\* a mod 2^s
LowLimb(a, s, i) ==
    IF 15 * i <= s THEN a[i]
    ELSE IF 15 * (i - 1) >= s THEN 0
    ELSE a[i] % 2^(s - 15 * (i - 1))

BLow(a, s) ==
    <<LowLimb(a, s, 1), LowLimb(a, s, 2), LowLimb(a, s, 3), LowLimb(a, s, 4), LowLimb(a, s, 5)>>

\* a - (a mod 2^s)
BHigh(a, s) ==
    <<a[1] - LowLimb(a, s, 1), a[2] - LowLimb(a, s, 2), a[3] - LowLimb(a, s, 3),
      a[4] - LowLimb(a, s, 4), a[5] - LowLimb(a, s, 5)>>

BBit(a, s) == (a[(s \div 15) + 1] \div 2^(s % 15)) % 2

\* Round the exact value a (plus a nonzero fraction below the unit when
\* sticky) to Precision significant bits, ties to even.
RoundD(a, sticky) ==
    IF a = BZero THEN a
    ELSE LET s == BitLen(a) - Precision IN
         IF s <= 0 THEN a
         ELSE LET r == BLow(a, s)
                  h == BPow2(s - 1)
                  up == \/ BLess(h, r)
                        \/ r = h /\ (sticky \/ BBit(a, s) = 1)
              IN  IF up THEN BAdd(BHigh(a, s), BPow2(s)) ELSE BHigh(a, s)

FAdd(x, y) == RoundD(BAdd(x, y), FALSE)

\* int * float, the int converted exactly
FMul(k, x) == RoundD(BMul(x, k), FALSE)

\* float / int (or float / float of integral value), correctly rounded
FDiv(x, k) == LET q == BDivMod(x, k) IN RoundD(SubSeq(q, 1, 5), q[6] # 0)

\* The float a decimal literal n/d denotes: the double nearest to n/d.
FLit(n, d) == FDiv(BUnits(n), d)

----------------------------------------------------------------------------
(* Strings are sequences of one-character strings.                         *)

Digits == {"0", "1", "2", "3", "4", "5", "6", "7", "8", "9"}

IsDigit(c) == c \in Digits

\* \s of Python's re
IsSpace(c) == c \in {" ", "\t", "\n", "\r"}

\* the literal f of the pattern, under re.IGNORECASE
IsF(c) == c \in {"f", "F"}

DigitVal(c) ==
    CASE c = "0" -> 0 [] c = "1" -> 1 [] c = "2" -> 2 [] c = "3" -> 3
      [] c = "4" -> 4 [] c = "5" -> 5 [] c = "6" -> 6 [] c = "7" -> 7
      [] c = "8" -> 8 [] c = "9" -> 9

\* int(match.group(1)) of a run of decimal digits
RECURSIVE IntOf(_)
IntOf(ds) ==
    IF ds = <<>> THEN 0
    ELSE 10 * IntOf(SubSeq(ds, 1, Len(ds) - 1)) + DigitVal(ds[Len(ds)])

RECURSIVE SkipSpace(_, _)
SkipSpace(s, i) ==
    IF i <= Len(s) /\ IsSpace(s[i]) THEN SkipSpace(s, i + 1) ELSE i

RECURSIVE SkipDigit(_, _)
SkipDigit(s, i) ==
    IF i <= Len(s) /\ IsDigit(s[i]) THEN SkipDigit(s, i + 1) ELSE i

NoMatch == [found |-> FALSE, start |-> 0, group |-> <<>>]

\* the pattern f=?(\d+), which allows no whitespace
MatchAtNoSpace(s, i) ==
    IF ~IsF(s[i]) THEN NoMatch
    ELSE LET j2 == IF i + 1 <= Len(s) /\ s[i + 1] = "=" THEN i + 2 ELSE i + 1
             k  == SkipDigit(s, j2)
         IN  IF k > j2
             THEN [found |-> TRUE, start |-> i, group |-> SubSeq(s, j2, k - 1)]
             ELSE NoMatch

\* The pattern f\s*=?\s*(\d+) tried at position i of s.  The character
\* classes of its parts are disjoint, so the greedy match is the only one.
MatchAt(s, i) ==
    IF ~IsF(s[i]) THEN NoMatch
    ELSE LET j1 == SkipSpace(s, i + 1)
             j2 == IF j1 <= Len(s) /\ s[j1] = "=" THEN j1 + 1 ELSE j1
             j3 == SkipSpace(s, j2)
             k  == SkipDigit(s, j3)
         IN  IF k > j3
             THEN [found |-> TRUE, start |-> i, group |-> SubSeq(s, j3, k - 1)]
             ELSE NoMatch

\* the match at the greatest position that has one
RECURSIVE SearchLast(_, _)
SearchLast(s, i) ==
    IF i > Len(s) THEN NoMatch
    ELSE IF SearchLast(s, i + 1).found THEN SearchLast(s, i + 1)
    ELSE MatchAt(s, i)

\* re.search: the match at the least position that has one
RECURSIVE SearchFrom(_, _)
SearchFrom(s, i) ==
    IF i > Len(s) THEN NoMatch
    ELSE IF MatchAt(s, i).found THEN MatchAt(s, i)
    ELSE SearchFrom(s, i + 1)

ReSearch(s) == SearchFrom(s, 1)

----------------------------------------------------------------------------
(* The fidelity injection of _encode_prompt.                               *)

F01 == FLit(1, 10)

F08 == FLit(8, 10)

\* a default of 0.1
DefaultFidelityLow == FLit(1, 10)

\* fidelity_val = 0.5  # default fidelity
DefaultFidelity == FLit(5, 10)

Max(a, b) == IF a >= b THEN a ELSE b

Min(a, b) == IF a <= b THEN a ELSE b

\* max(1, f_int): the upper clamp forgotten
ClampLowOnly(f_int) == Max(1, f_int)

\* f_int = max(1, min(f_int, 9))
Clamp(f_int) == Max(1, Min(f_int, 9))

\* 0.8 / 9: nine levels taken for nine steps
MapFidelityNineSteps(f_int) == FAdd(F01, FMul(f_int - 1, FDiv(F08, 9)))

\* (0.8 / 8)
Step == FDiv(F08, 8)

\* 0.1 + (f_int - 1) * (0.8 / 8)
MapFidelity(f_int) == FAdd(F01, FMul(f_int - 1, Step))

\* the value one prompt string contributes, given its match
MatchFidelity(m) == MapFidelity(Clamp(IntOf(m.group)))

\* a prompt without a match counted with the default
RECURSIVE FValsAll(_, _)
FValsAll(items, k) ==
    IF k = 0 THEN <<>>
    ELSE LET m == ReSearch(items[k]) IN
         Append(FValsAll(items, k - 1),
                IF m.found THEN MatchFidelity(m) ELSE DefaultFidelity)

\* f_vals after the loop over the first k prompts of the list
RECURSIVE FVals(_, _)
FVals(items, k) ==
    IF k = 0 THEN <<>>
    ELSE LET m == ReSearch(items[k]) IN
         IF m.found THEN Append(FVals(items, k - 1), MatchFidelity(m))
         ELSE FVals(items, k - 1)

\* sum(f_vals): Python adds left to right, starting from 0
RECURSIVE FSum(_, _)
FSum(vals, k) == IF k = 0 THEN BZero ELSE FAdd(FSum(vals, k - 1), vals[k])

ExtractFidelity(p) ==
    IF p.kind = "str"
    THEN LET m == ReSearch(p.items[1]) IN
         IF m.found THEN MatchFidelity(m) ELSE DefaultFidelity
    ELSE LET f_vals == FVals(p.items, Len(p.items)) IN
         IF f_vals # <<>> THEN FDiv(FSum(f_vals, Len(f_vals)), Len(f_vals))
         ELSE DefaultFidelity

\* the text encoder's output: one row per prompt, model_max_length columns
TextToken(row, pos) == [kind |-> "text", row |-> row, pos |-> pos, val |-> BZero]

TextEmbeds(batch, n) == [r \in 1..batch |-> [i \in 1..n |-> TextToken(r, i)]]

\* FidelityMLP.forward: a fixed function of the scalar alone
FidelityEmbedding(x) == [kind |-> "fidelity", row |-> 0, pos |-> 0, val |-> x]

\* torch.cat([prompt_embeds, fidelity_embedding], dim=1)
CatAfter(fidelity_embedding, prompt_embeds) ==
    [r \in 1..Len(prompt_embeds) |-> Append(prompt_embeds[r], fidelity_embedding)]

\* torch.cat([fidelity_embedding, prompt_embeds], dim=1)
Cat(fidelity_embedding, prompt_embeds) ==
    [r \in 1..Len(prompt_embeds) |-> <<fidelity_embedding>> \o prompt_embeds[r]]

\* prompt_embeds.repeat(1, n, 1).view(bs_embed * n, seq_len, -1)
Repeat(prompt_embeds, n) ==
    [q \in 1..(Len(prompt_embeds) * n) |-> prompt_embeds[((q - 1) \div n) + 1]]

\* a str prompt is tokenized to one row, a list to one row per element
BatchSize(p) == Len(p.items)

\* prompt_embeds after the fidelity injection and the duplication, given
\* the fidelity_val extracted; self.fidelity_mlp raises when none is attached
EncodePromptResult(p, n, k, pipe, val) ==
    LET prompt_embeds == TextEmbeds(BatchSize(p), n) IN
    IF ~pipe.fidelity_mlp
    THEN [status |-> "raised", embeds |-> <<>>]
    ELSE [status |-> "ok",
          embeds |-> Repeat(Cat(FidelityEmbedding(val), prompt_embeds), k)]

NotEncoded == [status |-> "none", embeds |-> <<>>]

EncodePrompt ==
    /\ pc = "call"
    /\ pc' = "done"
    /\ fidelity_val' = ExtractFidelity(prompt)
    /\ encoded' = EncodePromptResult(prompt, model_max_length, num_images_per_prompt,
                                     pipeline, fidelity_val')
    /\ UNCHANGED <<prompt, model_max_length, num_images_per_prompt, handlerVars,
                   generateVars, windowVars, mlp>>

----------------------------------------------------------------------------
(* FidelityMLP.save_pretrained and from_pretrained.  A module is its       *)
(* hidden_size, the dtype of its parameters and the parameter values: one  *)
(* value per unit of the last layer stands for the tensors whose shape     *)
(* follows hidden_size.  A directory holds config.json and                 *)
(* pytorch_model.bin, or lacks them.                                       *)

MaxHidden == 2

ParamValues == {0, 1}

\* a module as constructed (float32) or as load_model leaves it (float16)
Dtypes == {"float32", "float16"}

Modules ==
    UNION {[hidden_size : {h}, dtype : Dtypes, params : [1..h -> ParamValues]] :
           h \in 1..MaxHidden}

\* what a directory may hold: each file absent, or written by an earlier save
Stores ==
    [config : {NoConfig} \cup [present : {TRUE}, hidden_size : 1..MaxHidden],
     weights : {NoWeights} \cup
               {[present |-> TRUE, dtype |-> m.dtype, params |-> m.params] : m \in Modules}]

\* save_pretrained that writes the weights and leaves config.json as it is
SaveWeightsOnly(m, store) ==
    [store EXCEPT !.weights = [present |-> TRUE, dtype |-> m.dtype, params |-> m.params]]

\* save_pretrained: makedirs(exist_ok=True), then both files are written anew
SavePretrained(m, store) ==
    [config |-> [present |-> TRUE, hidden_size |-> m.hidden_size],
     weights |-> [present |-> TRUE, dtype |-> m.dtype, params |-> m.params]]

\* from_pretrained: torch.load of the config raises if it is missing, the
\* module is constructed (float32) with the saved hidden_size, torch.load of
\* the weights raises if they are missing, load_state_dict raises on a
\* tensor of another shape and else copies every value into the parameters
MLPFromPretrained(store) ==
    IF ~store.config.present THEN [raised |-> "config_missing", module |-> NoModule]
    ELSE IF ~store.weights.present THEN [raised |-> "weights_missing", module |-> NoModule]
    ELSE IF Len(store.weights.params) # store.config.hidden_size
         THEN [raised |-> "shape_mismatch", module |-> NoModule]
    ELSE [raised |-> "",
          module |-> [hidden_size |-> store.config.hidden_size, dtype |-> "float32",
                      params |-> store.weights.params]]

Scalars == {0, 1}

\* forward: the output vector is a function of the parameters and the input
Forward(m, x) == [i \in 1..m.hidden_size |-> m.params[i] * x + m.params[i]]

Save ==
    /\ mlp.pc \in {"made", "loaded"}
    /\ ~mlp.saved
    /\ mlp' = [mlp EXCEPT !.pc = "saved", !.saved = TRUE,
                          !.store = SavePretrained(mlp.module, mlp.store),
                          !.result = NotRestored]
    /\ UNCHANGED <<encodeVars, handlerVars, generateVars, windowVars>>

Restore ==
    /\ mlp.pc \in {"made", "saved"}
    /\ mlp' = [mlp EXCEPT !.pc = "loaded", !.result = MLPFromPretrained(mlp.store)]
    /\ UNCHANGED <<encodeVars, handlerVars, generateVars, windowVars>>

----------------------------------------------------------------------------
(* InferenceHandler.load_model (the second definition, which is the one    *)
(* the class keeps).                                                       *)

SchedulerNames == {"DDIM", "DDPM", "PNDM", "Euler Ancestral", "DPM++ 2M"}

\* what FidelityMLP.from_pretrained finds under <model_path>/fidelity_mlp
FidelityDirs == {"absent", "ok", "config_missing", "weights_missing", "shape_mismatch"}

\* a fidelity_mlp directory of each kind
FidelityStore(kind) ==
    LET config == [present |-> TRUE, hidden_size |-> MaxHidden]
        weights(h) == [present |-> TRUE, dtype |-> "float32", params |-> [i \in 1..h |-> 0]]
    IN CASE kind = "ok" -> [config |-> config, weights |-> weights(MaxHidden)]
         [] kind = "config_missing" -> [config |-> NoConfig, weights |-> weights(MaxHidden)]
         [] kind = "weights_missing" -> [config |-> config, weights |-> NoWeights]
         [] kind = "shape_mismatch" -> [config |-> config, weights |-> weights(1)]
         [] OTHER -> NoStore

\* a model directory: whether its scheduler and its backbone can be read,
\* and the state of its fidelity_mlp/ subdirectory
ModelDirs == [scheduler_ok : BOOLEAN, backbone_ok : BOOLEAN, fidelity : FidelityDirs]

NoDir == [scheduler_ok |-> FALSE, backbone_ok |-> FALSE, fidelity |-> "absent"]

NoPipeline == [loaded |-> FALSE, model |-> NoDir, scheduler |-> "",
               scheduler_config |-> NoDir, fidelity_mlp |-> FALSE, optimized |-> FALSE]

NotLoaded == [called |-> FALSE, model_path |-> NoDir, scheduler_name |-> "", ret |-> FALSE]

\* self._pipeline_class.from_pretrained(model_path, ..., scheduler=scheduler).to(self.device)
FromPretrained(model_path, scheduler_name) ==
    [loaded |-> TRUE, model |-> model_path, scheduler |-> scheduler_name,
     scheduler_config |-> model_path, fidelity_mlp |-> FALSE, optimized |-> FALSE]

\* enable_model_cpu_offload, enable_attention_slicing, xformers
EnableOptimizations(pipe) == [pipe EXCEPT !.optimized = TRUE]

\* FidelityMLP.from_pretrained raises unless config and weights are there and agree
FidelityLoads(model_path) == MLPFromPretrained(FidelityStore(model_path.fidelity)).raised = ""

\* a load_model that gives up when the encoder cannot be loaded
LoadModelNoFallback(pipe, setup, model_path, scheduler_name, deps_ok) ==
    LET failed(s) == [pipeline |-> pipe, setup_done |-> s, ret |-> FALSE] IN
    IF ~(setup \/ deps_ok) THEN failed(FALSE)
    ELSE IF scheduler_name \notin SchedulerNames THEN failed(TRUE)
    ELSE IF ~model_path.scheduler_ok THEN failed(TRUE)
    ELSE IF ~model_path.backbone_ok THEN failed(TRUE)
    ELSE IF model_path.fidelity = "absent"
         THEN [pipeline |-> FromPretrained(model_path, scheduler_name),
               setup_done |-> TRUE, ret |-> FALSE]
    ELSE IF FidelityLoads(model_path)
         THEN [pipeline |-> EnableOptimizations(
                    [FromPretrained(model_path, scheduler_name) EXCEPT !.fidelity_mlp = TRUE]),
               setup_done |-> TRUE, ret |-> TRUE]
    ELSE [pipeline |-> FromPretrained(model_path, scheduler_name),
          setup_done |-> TRUE, ret |-> FALSE]

\* the pipeline, _setup_done and the return value after load_model;
\* deps_ok: the imports of _lazy_setup succeed
LoadModelResult(pipe, setup, model_path, scheduler_name, deps_ok) ==
    LET failed(s) == [pipeline |-> pipe, setup_done |-> s, ret |-> FALSE] IN
    IF ~(setup \/ deps_ok) THEN failed(FALSE)
    ELSE IF scheduler_name \notin SchedulerNames THEN failed(TRUE)
    ELSE IF ~model_path.scheduler_ok THEN failed(TRUE)
    ELSE IF ~model_path.backbone_ok THEN failed(TRUE)
    ELSE IF model_path.fidelity = "absent"
         THEN [pipeline |-> FromPretrained(model_path, scheduler_name),
               setup_done |-> TRUE, ret |-> FALSE]
    ELSE IF FidelityLoads(model_path)
         THEN [pipeline |-> EnableOptimizations(
                    [FromPretrained(model_path, scheduler_name) EXCEPT !.fidelity_mlp = TRUE]),
               setup_done |-> TRUE, ret |-> TRUE]
    ELSE [pipeline |-> EnableOptimizations(FromPretrained(model_path, scheduler_name)),
          setup_done |-> TRUE, ret |-> TRUE]

LoadModel(model_path, scheduler_name, deps_ok) ==
    LET r == LoadModelResult(pipeline, setup_done, model_path, scheduler_name, deps_ok) IN
    /\ pipeline' = r.pipeline
    /\ setup_done' = r.setup_done
    /\ loaded' = [called |-> TRUE, model_path |-> model_path,
                  scheduler_name |-> scheduler_name, ret |-> r.ret]
    /\ UNCHANGED <<encodeVars, generateVars, changed, windowVars, mlp>>

NoChange == [count |-> 0, scheduler_name |-> "", raised |-> FALSE]

\* the caller makes at most MaxChanges calls of change_scheduler
MaxChanges == 2

\* a change that loads the pipeline again with the other scheduler
ChangeSchedulerReload(pipe, setup, scheduler_name) ==
    IF pipe.loaded /\ setup
    THEN IF scheduler_name \in SchedulerNames
         THEN [pipeline |-> FromPretrained(pipe.model, scheduler_name), raised |-> FALSE]
         ELSE [pipeline |-> pipe, raised |-> TRUE]
    ELSE [pipeline |-> pipe, raised |-> FALSE]

\* the pipeline after change_scheduler, and whether the call raised:
\* self.schedulers.get gives None for a name it does not have, and
\* None.from_config raises before anything is assigned
ChangeSchedulerResult(pipe, setup, scheduler_name) ==
    IF pipe.loaded /\ setup
    THEN IF scheduler_name \in SchedulerNames
         THEN [pipeline |-> [pipe EXCEPT !.scheduler = scheduler_name,
                                         !.scheduler_config = pipe.scheduler_config],
               raised |-> FALSE]
         ELSE [pipeline |-> pipe, raised |-> TRUE]
    ELSE [pipeline |-> pipe, raised |-> FALSE]

ChangeScheduler(scheduler_name) ==
    LET r == ChangeSchedulerResult(pipeline, setup_done, scheduler_name) IN
    /\ changed.count < MaxChanges
    /\ pipeline' = r.pipeline
    /\ changed' = [count |-> changed.count + 1, scheduler_name |-> scheduler_name,
                   raised |-> r.raised]
    /\ UNCHANGED <<setup_done, loaded, encodeVars, generateVars, windowVars, mlp>>

----------------------------------------------------------------------------
(* InferenceHandler.generate_image.  A string is the sequence of its       *)
(* characters.  The pipeline call is the sampler: it draws the initial     *)
(* noise, runs num_inference_steps denoising steps, calling the callback   *)
(* after each one (callback_steps=1), and decodes the last latents.        *)

\* "background."
Background == <<"b", "a", "c", "k", "g", "r", "o", "u", "n", "d", ".">>

\* " background."
Clause == <<" ">> \o Background

\* "NSFW, artifacts, blur, jpg, uncanny, deformed, glow, shadow."
NegativeTerms ==
    <<"N", "S", "F", "W", ",", " ", "a", "r", "t", "i", "f", "a", "c", "t",
    "s", ",", " ", "b", "l", "u", "r", ",", " ", "j", "p", "g", ",", " ",
    "u", "n", "c", "a", "n", "n", "y", ",", " ", "d", "e", "f", "o", "r",
    "m", "e", "d", ",", " ", "g", "l", "o", "w", ",", " ", "s", "h", "a",
    "d", "o", "w", ".">>

\* str.endswith
EndsWith(s, suffix) ==
    /\ Len(s) >= Len(suffix)
    /\ SubSeq(s, Len(s) - Len(suffix) + 1, Len(s)) = suffix

\* props.prompt += " background." without the test before it
AddClauseAlways(p) == p \o Clause

\* if not props.prompt.endswith("background."): props.prompt += " background."
AddClause(p) == IF ~EndsWith(p, Background) THEN p \o Clause ELSE p

\* the terms appended unless the negative prompt already ends with them
AddNegativeTermsOnce(n) == IF EndsWith(n, NegativeTerms) THEN n ELSE n \o NegativeTerms

\* props.negative_prompt + "NSFW, ..."
AddNegativeTerms(n) == n \o NegativeTerms

\* props.seed: None, or an integer
NoSeed == [given |-> FALSE, value |-> 0]

Seed(v) == [given |-> TRUE, value |-> v]

\* the truth value of props.seed in "... if props.seed else None"
Truthy(seed) == seed.given /\ seed.value # 0

NoGenerator == [seeded |-> FALSE, state |-> 0]

\* torch.manual_seed(seed): seeds the default generator and returns it
ManualSeed(v) == [seeded |-> TRUE, state |-> v]

\* generator=self._torch.manual_seed(props.seed) if props.seed else None
Generator(seed) == IF Truthy(seed) THEN ManualSeed(seed.value) ELSE NoGenerator

\* torch's default generator as the process starts: seeded by the system
OsSeeded == [seeded |-> FALSE, state |-> 0, drawn |-> 0]

\* the generator the sampler draws its noise from: the default generator,
\* seeded anew when a generator was built from the seed
NoiseSource(seed, rng) ==
    IF Truthy(seed) THEN [seeded |-> TRUE, state |-> seed.value, drawn |-> 0] ELSE rng

\* drawing.convert('RGB'), processed_image.resize((512, 512))
ProcessImage(d) == [content |-> d.content, mode |-> "RGB", size |-> 512]

NoImageInput == [content |-> 0, mode |-> "", size |-> 0]

NoRequest == [prompt |-> <<>>, negative_prompt |-> <<>>, num_inference_steps |-> 0,
              guidance_scale |-> 0, image_guidance_scale |-> 0, seed |-> NoSeed]

NoArgs == [prompt |-> <<>>, negative_prompt |-> <<>>, image |-> NoImageInput,
           num_inference_steps |-> 0, guidance_scale |-> 0, image_guidance_scale |-> 0,
           generator |-> NoGenerator]

\* the keyword arguments of self.pipeline(...), the callback apart
SamplerArgs(p, d) ==
    [prompt |-> p.prompt, negative_prompt |-> p.negative_prompt,
     image |-> ProcessImage(d),
     num_inference_steps |-> p.num_inference_steps,
     guidance_scale |-> p.guidance_scale,
     image_guidance_scale |-> p.image_guidance_scale,
     generator |-> Generator(p.seed)]

NoLatents == [noise |-> OsSeeded, denoised |-> 0, scale |-> "none"]

\* the initial latents: noise drawn from the generator
InitialLatents(noise) == [noise |-> noise, denoised |-> 0, scale |-> "latent"]

\* one denoising step of the sampler
Denoise(latents) == [latents EXCEPT !.denoised = @ + 1]

\* latents *= 1 / 0.18215: the preview scaling done in place
ScaledInPlace(latents) == [latents EXCEPT !.scale = "vae"]

\* latents_input = 1 / 0.18215 * latents: the sampler's latents after the
\* preview, which scales and decodes a copy
AfterPreview(latents) == latents

NoImage == [pipe |-> NoPipeline, args |-> NoArgs, latents |-> NoLatents]

\* .images[0]: the image the pipeline decodes from the last latents
Decode(pipe, args, latents) == [pipe |-> pipe, args |-> args, latents |-> latents]

\* the preview condition without its second half
ShouldReportNoFinal(step, total) == step % Max(1, total \div 10) = 0

\* step % max(1, props.num_inference_steps // 10) == 0
\*     or step == props.num_inference_steps - 1
ShouldReport(step, total) ==
    \/ step % Max(1, total \div 10) = 0
    \/ step = total - 1

\* callback(step, steps left, img_bytes)
CallbackCallRemaining(step, total) == <<step, total - step>>

\* callback(step, props.num_inference_steps, img_bytes)
CallbackCall(step, total) == <<step, total>>

\* gen.uses counts the calls that got past the guard with the request object
\* the caller holds now
NoCall == [pc |-> "idle", outcome |-> "none", after |-> "none", entry |-> NoRequest,
           drawing |-> NoImageInput, callback |-> FALSE, args |-> NoArgs, step |-> 0,
           latents |-> NoLatents, reported |-> <<>>, image |-> NoImage, uses |-> 0]

NoPrev == [valid |-> FALSE, callback |-> FALSE, args |-> NoArgs, image |-> NoImage]

\* the caller makes at most MaxCalls calls of generate_image
MaxCalls == 2

\* generate_image up to the pipeline call: the guard on the pipeline, the
\* edits of the prompts and the arguments handed to the sampler
\* a guard that lets every call through
GuardAbsent(pipe) == FALSE

\* if not self.pipeline: raise ValueError("Model not loaded")
ModelNotLoaded(pipe) == ~pipe.loaded

GenerateImage(callback) ==
    /\ gen.pc # "sampling"
    /\ calls < MaxCalls
    /\ calls' = calls + 1
    /\ IF ModelNotLoaded(pipeline)
       THEN /\ gen' = [NoCall EXCEPT !.pc = "done", !.outcome = "rejected",
                                     !.after = gen.outcome, !.entry = props,
                                     !.drawing = drawing, !.callback = callback,
                                     !.uses = gen.uses]
            /\ prev' = NoPrev
            /\ UNCHANGED <<props, torch_rng>>
       ELSE LET p == [props EXCEPT !.prompt = AddClause(@),
                                   !.negative_prompt = AddNegativeTerms(@)]
                noise == NoiseSource(p.seed, torch_rng)
                repeated == /\ gen.outcome = "returned"
                            /\ gen.entry = props
                            /\ gen.drawing = drawing
                            /\ gen.image.pipe = pipeline
            IN  /\ props' = p
                /\ torch_rng' = [noise EXCEPT !.drawn = @ + 1]
                /\ prev' = IF repeated
                           THEN [valid |-> TRUE, callback |-> gen.callback,
                                 args |-> gen.args, image |-> gen.image]
                           ELSE NoPrev
                /\ gen' = [pc |-> "sampling", outcome |-> "none", after |-> gen.outcome,
                           entry |-> props, drawing |-> drawing, callback |-> callback,
                           args |-> SamplerArgs(p, drawing), step |-> 0,
                           latents |-> InitialLatents(noise), reported |-> <<>>,
                           image |-> NoImage, uses |-> gen.uses + 1]
    /\ UNCHANGED <<made, drawing, encodeVars, handlerVars,
                   windowVars, mlp>>

\* one iteration of the sampler's loop, and callback_wrapper after it
SamplerStep ==
    /\ gen.pc = "sampling"
    /\ gen.step < gen.args.num_inference_steps
    /\ LET latents == Denoise(gen.latents)
           total == props.num_inference_steps
           report == gen.callback /\ ShouldReport(gen.step, total)
       IN  gen' = [gen EXCEPT
                     !.step = @ + 1,
                     !.latents = IF report THEN AfterPreview(latents) ELSE latents,
                     !.reported = IF report THEN Append(@, CallbackCall(gen.step, total))
                                  ELSE @]
    /\ UNCHANGED <<props, made, drawing, prev, torch_rng, calls, encodeVars, handlerVars,
                   windowVars, mlp>>

\* an exception that leaves the call with the call still marked as running
RaiseStuck(g) == [g EXCEPT !.outcome = "raised"]

\* generate_image has no try: the exception ends the call
Raise(g) == [g EXCEPT !.pc = "done", !.outcome = "raised"]

\* the pipeline call raises, before the loop, in it or after it
SamplerRaise ==
    /\ gen.pc = "sampling"
    /\ gen.outcome = "none"
    /\ gen' = Raise(gen)
    /\ UNCHANGED <<props, made, drawing, prev, torch_rng, calls, encodeVars, handlerVars,
                   windowVars, mlp>>

\* the loop is over: output = self.pipeline(...).images[0]; return output
GenerateReturn ==
    /\ gen.pc = "sampling"
    /\ gen.outcome = "none"
    /\ gen.step >= gen.args.num_inference_steps
    /\ gen' = [gen EXCEPT !.pc = "done", !.outcome = "returned",
                          !.image = Decode(pipeline, gen.args, gen.latents)]
    /\ UNCHANGED <<props, made, drawing, prev, torch_rng, calls, encodeVars, handlerVars,
                   windowVars, mlp>>

\* the caller builds a new request object from the values it built the
\* last one from
RebuildRequest ==
    /\ gen.pc = "done"
    /\ props' = made
    /\ gen' = [gen EXCEPT !.pc = "idle", !.uses = 0]
    /\ UNCHANGED <<made, drawing, prev, torch_rng, calls, encodeVars, handlerVars,
                   windowVars, mlp>>


----------------------------------------------------------------------------
(* The session: a handler is constructed and load_model is called on it.   *)

NoPrompt == [kind |-> "str", items |-> << <<>> >>]

\* no request has been built and generate_image has not been called
NoGenerate ==
    /\ props = NoRequest
    /\ made = NoRequest
    /\ drawing = NoImageInput
    /\ gen = NoCall
    /\ prev = NoPrev
    /\ torch_rng = OsSeeded
    /\ calls = 0

\* _encode_prompt has not been called
NoEncode ==
    /\ pc = "idle"
    /\ prompt = NoPrompt
    /\ model_max_length = 0
    /\ num_images_per_prompt = 0
    /\ fidelity_val = BZero
    /\ encoded = NotEncoded

Init ==
    /\ pipeline = NoPipeline
    /\ setup_done = FALSE
    /\ loaded = NotLoaded
    /\ changed = NoChange
    /\ NoWindow
    /\ NoPersist
    /\ pc = "idle"
    /\ prompt = NoPrompt
    /\ model_max_length = 0
    /\ num_images_per_prompt = 0
    /\ fidelity_val = BZero
    /\ encoded = NotEncoded
    /\ NoGenerate

Next ==
    \E model_path \in ModelDirs, scheduler_name \in SchedulerNames \cup {"LMS"},
       deps_ok \in BOOLEAN :
        LoadModel(model_path, scheduler_name, deps_ok)

Spec == Init /\ [][Next]_vars

\* the handler with load_model and change_scheduler: every model directory
\* loaded with "DDIM", and the scheduler changed to every name of the
\* handler and to one it does not have
HandlerNext ==
    \/ \E model_path \in ModelDirs, deps_ok \in BOOLEAN :
           LoadModel(model_path, "DDIM", deps_ok)
    \/ \E scheduler_name \in SchedulerNames \cup {"LMS"} :
           ChangeScheduler(scheduler_name)

HandlerSpec == Init /\ [][HandlerNext]_vars

----------------------------------------------------------------------------
(* _encode_prompt as a function of its inputs: every prompt of the input   *)
(* sets below is encoded once, by a pipeline that load_model has loaded.   *)

MaxLen == 4

MaxBatch == 6

MaxTokens == 2

MaxImages == 2

Alphabet == {"f", "F", "=", " ", "a", "0", "1", "5", "9"}

\* f<d>, f=<d> and F<d> for every digit d
Markers == UNION {{<<"f", d>>, <<"f", "=", d>>, <<"F", d>>} : d \in Digits}

BatchPool == {<<"f", "1">>, <<"f", "9">>, <<"a">>}

Str(s) == [kind |-> "str", items |-> <<s>>]

List(l) == [kind |-> "list", items |-> l]

\* prompt is a string of at most n characters of Alphabet
IsString(p, n) == \E k \in 0..n : \E s \in [1..k -> Alphabet] : p = Str(s)

\* prompt is a list of 1..n strings of BatchPool
IsBatch(p, n) == \E k \in 1..n : \E l \in [1..k -> BatchPool] : p = List(l)

\* a pipeline load_model has loaded, with the FidelityMLP attached or not
LoadedPipeline(attached) ==
    LoadModelResult(NoPipeline, FALSE,
        [scheduler_ok |-> TRUE, backbone_ok |-> TRUE,
         fidelity |-> IF attached THEN "ok" ELSE "config_missing"],
        "DDIM", TRUE).pipeline

EncodeInit ==
    /\ pc = "call"
    /\ fidelity_val = BZero
    /\ encoded = NotEncoded
    /\ setup_done = TRUE
    /\ loaded = NotLoaded
    /\ changed = NoChange
    /\ NoWindow
    /\ NoPersist
    /\ NoGenerate
    /\ \/ /\ \/ IsString(prompt, MaxLen)
             \/ \E s \in Markers : prompt = Str(s)
             \/ IsBatch(prompt, MaxBatch)
          /\ model_max_length = MaxTokens
          /\ num_images_per_prompt = 1
          /\ pipeline = LoadedPipeline(TRUE)
       \/ /\ \/ \E s \in BatchPool : prompt = Str(s)
             \/ IsBatch(prompt, 2)
          /\ model_max_length \in 1..MaxTokens
          /\ num_images_per_prompt \in 1..MaxImages
          /\ pipeline \in {LoadedPipeline(TRUE), LoadedPipeline(FALSE)}

EncodeNext == EncodePrompt

EncodeSpec == EncodeInit /\ [][EncodeNext]_vars

----------------------------------------------------------------------------
(* The session with generate_image: a caller that loads models and         *)
(* generates, one call at a time, from the request objects it builds.      *)

MaxSteps == 21

MaxPieces == 2

\* model directories: complete, without fidelity_mlp/, without a backbone
SessionDirs ==
    {[scheduler_ok |-> TRUE, backbone_ok |-> TRUE, fidelity |-> "ok"],
     [scheduler_ok |-> TRUE, backbone_ok |-> TRUE, fidelity |-> "absent"],
     [scheduler_ok |-> TRUE, backbone_ok |-> FALSE, fidelity |-> "ok"]}

PromptPieces ==
    {<<"f", "3">>, <<"a">>, <<" ">>, <<".">>, Background, SubSeq(Background, 1, 10)}

RECURSIVE Flatten(_, _)
Flatten(pieces, k) == IF k = 0 THEN <<>> ELSE Flatten(pieces, k - 1) \o pieces[k]

Negatives == {<<>>, <<"b", "l", "u", "r">>}

Seeds == {NoSeed, Seed(0), Seed(42)}

Drawings == {[content |-> 1, mode |-> "RGB", size |-> 512],
             [content |-> 2, mode |-> "RGBA", size |-> 256]}

\* the scales are in halves, as the sliders of the window give them
DefaultRequest ==
    [prompt |-> <<"f", "3">>, negative_prompt |-> <<>>, num_inference_steps |-> 1,
     guidance_scale |-> 15, image_guidance_scale |-> 3, seed |-> Seed(42)]

\* the requests: every prompt of at most MaxPieces pieces, every step count
\* up to MaxSteps, and every seed with every negative prompt
IsRequest(r) ==
    \/ \E k \in 0..MaxPieces : \E s \in [1..k -> PromptPieces] :
          r = [DefaultRequest EXCEPT !.prompt = Flatten(s, k)]
    \/ \E n \in (-1)..MaxSteps :
          r = [DefaultRequest EXCEPT !.num_inference_steps = n]
    \/ \E seed \in Seeds, n \in Negatives :
          r = [DefaultRequest EXCEPT !.seed = seed, !.negative_prompt = n]

\* every drawing with the default request, the first with the others
IsDrawing(d, r) ==
    \E c \in Drawings :
        /\ d = c
        /\ r = DefaultRequest \/ c.content = 1

SessionInit ==
    /\ pipeline = NoPipeline
    /\ setup_done = FALSE
    /\ loaded = NotLoaded
    /\ changed = NoChange
    /\ NoWindow
    /\ NoPersist
    /\ NoEncode
    /\ IsRequest(props)
    /\ made = props
    /\ IsDrawing(drawing, props)
    /\ gen = NoCall
    /\ prev = NoPrev
    /\ torch_rng = OsSeeded
    /\ calls = 0

SessionNext ==
    \/ /\ gen.pc # "sampling"
       /\ calls < MaxCalls
       /\ \E model_path \in SessionDirs, deps_ok \in BOOLEAN :
              LoadModel(model_path, "DDIM", deps_ok)
    \/ \E callback \in BOOLEAN : GenerateImage(callback)
    \/ SamplerStep
    \/ SamplerRaise
    \/ GenerateReturn
    \/ RebuildRequest

SessionSpec == SessionInit /\ [][SessionNext]_vars

----------------------------------------------------------------------------
(* The DoodlePix window (src/DoodlePix/main.py): the slots run one at a    *)
(* time on the GUI thread; a GenerationThread and a ModelLoaderThread run  *)
(* the handler's methods beside it and report through queued signals.      *)
(* ui.started counts the GenerationThreads started and not yet at the      *)
(* guard of generate_image, ui.sampling those in the pipeline call,        *)
(* ui.loaders lists the model paths of the ModelLoaderThreads running      *)
(* load_model, ui.signals counts the finished signals not yet delivered.   *)

\* at most MaxThreads worker threads of a kind, with their signals, at a time
MaxThreads == 2

\* DoodlePixUI.generate_image: the slot of the RUN button and of Ctrl+G
GenerateSlot ==
    IF ~pipeline.loaded /\ ~ui.reload_cb
    THEN UNCHANGED ui
    ELSE /\ ui.started + ui.sampling + ui.signals < MaxThreads
         /\ ui' = [ui EXCEPT !.generate_btn = FALSE, !.started = @ + 1]

\* a click on the RUN button, which a disabled button does not take
ClickGenerate ==
    /\ ui.generate_btn
    /\ GenerateSlot
    /\ UNCHANGED <<area, mlp, encodeVars, handlerVars, generateVars>>

\* QShortcut(QKeySequence("Ctrl+G"), self).activated
ShortcutGenerate ==
    /\ GenerateSlot
    /\ UNCHANGED <<area, mlp, encodeVars, handlerVars, generateVars>>

\* the user checks or unchecks the Reload box
ToggleReload ==
    /\ ui' = [ui EXCEPT !.reload_cb = ~@]
    /\ UNCHANGED <<area, mlp, encodeVars, handlerVars, generateVars>>

\* DoodlePixUI.browse_model with the directory the user picked
BrowseModel(path) ==
    /\ IF ui.reload_cb \/ ~pipeline.loaded
       THEN /\ Len(ui.loaders) < MaxThreads
            /\ ui' = [ui EXCEPT !.loaders = Append(@, path)]
       ELSE UNCHANGED ui
    /\ UNCHANGED <<area, mlp, encodeVars, handlerVars, generateVars>>

\* s without its i-th element
Without(s, i) == SubSeq(s, 1, i - 1) \o SubSeq(s, i + 1, Len(s))

\* ModelLoaderThread.run: load_model ends and the thread with it
LoaderFinish(i, deps_ok) ==
    LET r == LoadModelResult(pipeline, setup_done, ui.loaders[i], "Euler Ancestral",
                             deps_ok) IN
    /\ pipeline' = r.pipeline
    /\ setup_done' = r.setup_done
    /\ loaded' = [called |-> TRUE, model_path |-> ui.loaders[i],
                  scheduler_name |-> "Euler Ancestral", ret |-> r.ret]
    /\ ui' = [ui EXCEPT !.loaders = Without(@, i)]
    /\ UNCHANGED <<changed, area, mlp, encodeVars, generateVars>>

\* GenerationThread.run calls generate_image: without a pipeline it raises
\* at once and run prints the exception; with one the sampler is entered
GenThreadCall ==
    /\ ui.started > 0
    /\ ui' = IF ~pipeline.loaded
             THEN [ui EXCEPT !.started = @ - 1]
             ELSE [ui EXCEPT !.started = @ - 1, !.sampling = @ + 1]
    /\ UNCHANGED <<area, mlp, encodeVars, handlerVars, generateVars>>

\* generate_image returns and run emits finished(result)
GenThreadReturn ==
    /\ ui.sampling > 0
    /\ ui' = [ui EXCEPT !.sampling = @ - 1, !.signals = @ + 1]
    /\ UNCHANGED <<area, mlp, encodeVars, handlerVars, generateVars>>

\* the sampler raises and run prints the exception: nothing is emitted
GenThreadRaise ==
    /\ ui.sampling > 0
    /\ ui' = [ui EXCEPT !.sampling = @ - 1]
    /\ UNCHANGED <<area, mlp, encodeVars, handlerVars, generateVars>>

\* DoodlePixUI.on_generation_complete, the slot of finished
OnGenerationComplete ==
    /\ ui.signals > 0
    /\ ui' = [ui EXCEPT !.signals = @ - 1, !.generate_btn = TRUE]
    /\ UNCHANGED <<area, mlp, encodeVars, handlerVars, generateVars>>

UIInit ==
    /\ pipeline = NoPipeline
    /\ setup_done = FALSE
    /\ loaded = NotLoaded
    /\ changed = NoChange
    /\ NoEncode
    /\ NoGenerate
    /\ area = NoArea
    /\ NoPersist
    /\ ui = [NoUI EXCEPT !.generate_btn = TRUE]

\* a GenerationThread that is in the sampler leaves it
GenThreadEnd == GenThreadReturn \/ GenThreadRaise

\* a ModelLoaderThread ends
LoaderEnd == \E i \in 1..Len(ui.loaders), deps_ok \in BOOLEAN : LoaderFinish(i, deps_ok)

ThreadSteps ==
    \/ GenThreadCall
    \/ GenThreadEnd
    \/ LoaderEnd

UINext ==
    \/ ClickGenerate
    \/ ShortcutGenerate
    \/ ToggleReload
    \/ \E path \in SessionDirs : BrowseModel(path)
    \/ OnGenerationComplete
    \/ ThreadSteps

UISpec == UIInit /\ [][UINext]_vars

\* every worker thread runs to its end and every queued signal is delivered
UIFairSpec ==
    /\ UISpec
    /\ WF_vars(GenThreadCall)
    /\ WF_vars(GenThreadEnd)
    /\ WF_vars(LoaderEnd)
    /\ WF_vars(OnGenerationComplete)

----------------------------------------------------------------------------
(* A FidelityMLP and a directory: the module is saved to the directory,    *)
(* whatever the directory held, and a module is loaded from it, before or  *)
(* after the save.                                                         *)

PersistInit ==
    /\ pipeline = NoPipeline
    /\ setup_done = FALSE
    /\ loaded = NotLoaded
    /\ changed = NoChange
    /\ NoWindow
    /\ NoGenerate
    /\ NoEncode
    /\ \E m \in Modules, st \in Stores :
           mlp = [pc |-> "made", module |-> m, store |-> st, saved |-> FALSE,
                  result |-> NotRestored]

PersistNext == Save \/ Restore

PersistSpec == PersistInit /\ [][PersistNext]_vars

----------------------------------------------------------------------------
(* The DrawingArea (src/DoodlePix/draw.py) in normal drawing mode.  A      *)
(* layer is the amount of ink on it: 0 is the black canvas, a mouse move   *)
(* of a stroke adds ink until the layer is full.  area.last is the last    *)
(* operation ("stroke" after a press, moves and a release),                *)
(* area.before the layer shown when the last press or redo  *)
(* came, area.edits the number of clears, loads, undos and redos so far,   *)
(* area.strokes the number of strokes begun.  The buttons and the          *)
(* shortcuts are used between strokes.                                     *)

max_history == 20

MaxInk == 2

MaxEdits == 5

MaxStrokes == 3

Black == 0

\* what a loaded background image puts on the layer
Background512 == MaxInk

\* _save_state without the cap on the history
SaveStateUncapped(a) ==
    [a EXCEPT !.history = Append(a.history, a.layer), !.redo_stack = <<>>]

\* _save_state
SaveState(a) ==
    LET kept == IF Len(a.history) >= max_history THEN Tail(a.history) ELSE a.history
    IN  [a EXCEPT !.history = Append(kept, a.layer), !.redo_stack = <<>>]

\* the state after DrawingArea.__init__
NewArea == SaveState([NoArea EXCEPT !.layer = Black])

\* the state after n strokes on a new DrawingArea, each adding ink while
\* the layer takes it
RECURSIVE AfterStrokes(_)
AfterStrokes(n) ==
    IF n = 0 THEN NewArea
    ELSE LET a == AfterStrokes(n - 1)
         IN  SaveState([a EXCEPT !.layer = IF @ < MaxInk THEN @ + 1 ELSE @])

\* strokes drawn before the operations that follow
EarlierStrokes == {0, max_history - 2}

AreaFrame == UNCHANGED <<ui, mlp, encodeVars, handlerVars, generateVars>>

\* mousePressEvent, left button, no bounding box
MousePress ==
    /\ ~area.drawing
    /\ area.strokes < MaxStrokes
    /\ area' = [area EXCEPT !.drawing = TRUE, !.last = "press", !.before = area.layer,
                            !.strokes = @ + 1]
    /\ AreaFrame

\* mouseMoveEvent while drawing: a line is painted on the layer
MouseMove ==
    /\ area.drawing
    /\ area.layer < MaxInk
    /\ area' = [area EXCEPT !.layer = @ + 1]
    /\ AreaFrame

\* mouseReleaseEvent, left button
MouseRelease ==
    /\ area.drawing
    /\ area' = [SaveState(area) EXCEPT
                   !.drawing = FALSE,
                   !.last = "stroke"]
    /\ AreaFrame

\* clear_canvas: the state is saved, then the layer is filled black
ClearCanvas ==
    /\ ~area.drawing
    /\ area.edits < MaxEdits
    /\ area' = [SaveState(area) EXCEPT !.layer = Black, !.last = "clear", !.edits = @ + 1]
    /\ AreaFrame

\* load_background_image with a file chosen: the state is saved, then the
\* image is read, which may raise and leave the layer as it is
LoadBackgroundImage(readable) ==
    /\ ~area.drawing
    /\ area.edits < MaxEdits
    /\ area' = [SaveState(area) EXCEPT
                   !.layer = IF readable THEN Background512 ELSE @,
                   !.last = "load", !.edits = @ + 1]
    /\ AreaFrame

\* undo
Undo ==
    /\ ~area.drawing
    /\ area.edits < MaxEdits
    /\ area' = IF Len(area.history) > 1
               THEN LET popped == SubSeq(area.history, 1, Len(area.history) - 1)
                    IN  [area EXCEPT !.redo_stack = Append(@, area.layer),
                                     !.history = popped,
                                     !.layer = popped[Len(popped)],
                                     !.last = "undo", !.edits = @ + 1]
               ELSE [area EXCEPT !.last = "undo", !.edits = @ + 1]
    /\ AreaFrame

\* redo
Redo ==
    /\ ~area.drawing
    /\ area.edits < MaxEdits
    /\ area' = IF area.redo_stack # <<>>
               THEN [area EXCEPT !.history = Append(@, area.layer),
                                 !.layer = area.redo_stack[Len(area.redo_stack)],
                                 !.redo_stack = SubSeq(@, 1, Len(@) - 1),
                                 !.before = area.layer,
                                 !.last = "redo", !.edits = @ + 1]
               ELSE [area EXCEPT !.last = "none", !.edits = @ + 1]
    /\ AreaFrame

DrawInit ==
    /\ pipeline = NoPipeline
    /\ setup_done = FALSE
    /\ loaded = NotLoaded
    /\ changed = NoChange
    /\ ui = NoUI
    /\ \E n \in EarlierStrokes : area = AfterStrokes(n)
    /\ NoPersist
    /\ NoGenerate
    /\ NoEncode

DrawNext ==
    \/ MousePress
    \/ MouseMove
    \/ MouseRelease
    \/ ClearCanvas
    \/ \E readable \in BOOLEAN : LoadBackgroundImage(readable)
    \/ Undo
    \/ Redo

DrawSpec == DrawInit /\ [][DrawNext]_vars

----------------------------------------------------------------------------
(* The properties.  A marker is described here by its shape, not by the    *)
(* search that finds it: an f at i, a digit run j..k that no digit         *)
(* follows, and nothing between them (or only what the pattern allows).    *)

Done == pc = "done"

TheString == prompt.items[1]

DigitRun(s, j, k) ==
    /\ j <= k /\ k <= Len(s)
    /\ \A m \in j..k : IsDigit(s[m])
    /\ (k < Len(s) => ~IsDigit(s[k + 1]))

\* f, then at most one "=", then the digits: f7, f=3
TightMarker(s, i, j, k) ==
    /\ IsF(s[i])
    /\ \/ j = i + 1
       \/ j = i + 2 /\ s[i + 1] = "="
    /\ DigitRun(s, j, k)

\* f, then whitespace and at most one "=" in any arrangement, then the digits
LooseMarker(s, i, j, k) ==
    /\ IsF(s[i])
    /\ i < j
    /\ \A m \in (i + 1)..(j - 1) : IsSpace(s[m]) \/ s[m] = "="
    /\ Cardinality({m \in (i + 1)..(j - 1) : s[m] = "="}) <= 1
    /\ DigitRun(s, j, k)

Spans(s) == {t \in (1..Len(s)) \X (1..Len(s)) \X (1..Len(s)) : t[1] < t[2] /\ t[2] <= t[3]}

TightMarkers(s) == {t \in Spans(s) : TightMarker(s, t[1], t[2], t[3])}

LooseMarkers(s) == {t \in Spans(s) : LooseMarker(s, t[1], t[2], t[3])}

HasMarker(s) == LooseMarkers(s) # {}

FirstMarker(s) ==
    LET ms == LooseMarkers(s) IN CHOOSE t \in ms : \A u \in ms : t[1] <= u[1]

\* the integer the leftmost marker of s carries
FirstInt(s) == LET t == FirstMarker(s) IN IntOf(SubSeq(s, t[2], t[3]))

\* the floats 0.1, 0.5 and 0.9
Tenth == FLit(1, 10)

Half == FLit(5, 10)

NineTenths == FLit(9, 10)

\* 0.1 + (n - 1) * 0.1, for n in 1..9
TenthsTable == [n \in 1..9 |-> FAdd(Tenth, FMul(n - 1, Tenth))]

Tenths(n) == TenthsTable[n]

\* C1: a single prompt whose leftmost marker carries one digit n in 1..9
\* (as fn, f=n, Fn, ...) yields 0.1 + (n - 1) * 0.1; n = 1 gives 0.1,
\* n = 5 gives 0.5 and n = 9 gives 0.9.
C1_DigitMapsToTenths ==
    (Done /\ prompt.kind = "str" /\ HasMarker(TheString)) =>
        LET m == FirstMarker(TheString)
            n == IntOf(SubSeq(TheString, m[2], m[3]))
        IN
        (n \in 1..9 /\ m[2] = m[3]) =>
            /\ fidelity_val = Tenths(n)
            /\ n = 1 => fidelity_val = Tenth
            /\ n = 5 => fidelity_val = Half
            /\ n = 9 => fidelity_val = NineTenths

C1_Witness ==
    /\ Done
    /\ prompt = Str(<<"a", "F", "=", "5">>)
    /\ fidelity_val = Half

\* C2: the parsed integer is clamped to [1, 9] before it is mapped: a digit
\* run below 1 yields 0.1, a digit run above 9 yields 0.9.
C2_ClampedBeforeMapping ==
    (Done /\ prompt.kind = "str" /\ HasMarker(TheString)) =>
        LET n == FirstInt(TheString) IN
        /\ n < 1 => fidelity_val = Tenth
        /\ n > 9 => fidelity_val = NineTenths

C2_Witness ==
    /\ Done
    /\ prompt = Str(<<"f", "1", "5">>)
    /\ fidelity_val = NineTenths

\* the value the single-string rule gives s
SingleValue(s) == ExtractFidelity(Str(s))

\* C3: for a list of prompts the value is the arithmetic mean of the
\* single-string values of the elements that contain a marker; elements
\* without one are left out, and with no marker at all the value is 0.5.
C3_BatchMeanOfMarked ==
    (Done /\ prompt.kind = "list") =>
        LET marked == SelectSeq(prompt.items, HasMarker)
            vals == [i \in 1..Len(marked) |-> SingleValue(marked[i])]
        IN  /\ marked = <<>> => fidelity_val = Half
            /\ marked # <<>> => fidelity_val = FDiv(FSum(vals, Len(vals)), Len(vals))
            /\ prompt.items = << <<"f", "1">>, <<"f", "9">> >> => fidelity_val = Half

C3_Witness ==
    /\ Done
    /\ prompt = List(<< <<"f", "1">>, <<"a">>, <<"f", "1">> >>)
    /\ fidelity_val = Tenth

\* C4: a single prompt that contains no marker yields the default 0.5.
C4_DefaultWithoutMarker ==
    (Done /\ prompt.kind = "str" /\ ~HasMarker(TheString)) => fidelity_val = Half

C4_Witness ==
    /\ Done
    /\ prompt = Str(<<"f", "a", "1", "=">>)
    /\ fidelity_val = Half

\* C5 as stated: only f immediately followed by the digits, with at most a
\* single "=" between, is a marker; a prompt without one yields 0.5.
C5_OnlyTightMarkers ==
    (Done /\ prompt.kind = "str" /\ TightMarkers(TheString) = {}) =>
        fidelity_val = Half

\* C5 amended: whitespace may stand between f, the optional "=" and the
\* digits; the leftmost such marker decides the value, and a prompt with no
\* such marker yields 0.5.
C5_WhitespaceAllowed ==
    (Done /\ prompt.kind = "str") =>
        IF HasMarker(TheString)
        THEN fidelity_val = Tenths(Clamp(FirstInt(TheString)))
        ELSE fidelity_val = Half

C5_Witness ==
    /\ Done
    /\ prompt = Str(<<"f", " ", "=", "9">>)
    /\ TightMarkers(TheString) = {}
    /\ fidelity_val = NineTenths

C7_LeftmostMarkerDecides ==
    (Done /\ prompt.kind = "str" /\ Cardinality(LooseMarkers(TheString)) >= 2) =>
        /\ fidelity_val = Tenths(Clamp(FirstInt(TheString)))
        /\ fidelity_val = SingleValue(SubSeq(TheString, 1, FirstMarker(TheString)[3]))

C7_Witness ==
    /\ Done
    /\ prompt = Str(<<"f", "1", "f", "9">>)
    /\ fidelity_val = Tenth

\* the row of the text embeddings that row q of the result repeats
SourceRow(q) == ((q - 1) \div num_images_per_prompt) + 1

\* C8: with an encoder attached every row of the result has length N + 1,
\* holds the fidelity vector of the extracted scalar at position 0 and the
\* text embeddings of its prompt, in order, at positions 1..N.
C8_FidelityTokenPrepended ==
    (Done /\ pipeline.fidelity_mlp) =>
        /\ encoded.status = "ok"
        /\ Len(encoded.embeds) = BatchSize(prompt) * num_images_per_prompt
        /\ \A q \in 1..Len(encoded.embeds) :
            /\ Len(encoded.embeds[q]) = model_max_length + 1
            /\ encoded.embeds[q][1] = FidelityEmbedding(fidelity_val)
            /\ \A i \in 1..model_max_length :
                   encoded.embeds[q][i + 1] = TextToken(SourceRow(q), i)

C8_Witness ==
    /\ Done
    /\ pipeline.fidelity_mlp
    /\ prompt = List(<< <<"f", "1">>, <<"a">> >>)
    /\ model_max_length = 2
    /\ num_images_per_prompt = 2
    /\ Len(encoded.embeds) = 4

\* C9: with no encoder attached the text embeddings come back unchanged.
C9_PassThroughWithoutEncoder ==
    (Done /\ ~pipeline.fidelity_mlp) =>
        /\ encoded.status = "ok"
        /\ encoded.embeds = Repeat(TextEmbeds(BatchSize(prompt), model_max_length),
                                   num_images_per_prompt)

\* C10: load_model on a directory whose scheduler and backbone are readable
\* and which has no fidelity_mlp/ reports success and leaves a pipeline
\* with no encoder attached.
C10_LoadsWithoutFidelityDir ==
    (/\ loaded.called
     /\ setup_done
     /\ loaded.scheduler_name \in SchedulerNames
     /\ loaded.model_path.scheduler_ok
     /\ loaded.model_path.backbone_ok
     /\ loaded.model_path.fidelity = "absent") =>
        /\ loaded.ret
        /\ pipeline.loaded
        /\ ~pipeline.fidelity_mlp

----------------------------------------------------------------------------
(* The properties of generate_image, stated on the session.                *)

\* the last generate_image call has ended and its request object is as
\* the call left it
CallEnded == gen.pc = "done"

\* the last generate_image call got past the guard on the pipeline
Accepted == gen.outcome # "rejected" /\ gen.pc # "idle" /\ calls > 0

\* C11: a load_model call that reports failure on a handler that has no
\* pipeline leaves the handler without a pipeline, so that generate_image
\* is still rejected.
C11_FailedLoadStaysUnloaded ==
    [][(/\ ~pipeline.loaded
        /\ UNCHANGED generateVars
        /\ loaded'.called
        /\ ~loaded'.ret) => ~pipeline'.loaded]_vars

\* C12: when the sampler raises, the call ends without an image, the
\* pipeline is the one that was loaded, and the next generate_image call
\* is accepted: it reaches the sampler.
C12_SamplerFailureKeepsSession ==
    [][/\ (gen.pc = "sampling" /\ gen'.outcome = "raised") =>
             /\ gen'.pc = "done"
             /\ gen'.image = NoImage
             /\ pipeline' = pipeline
             /\ pipeline'.loaded
       /\ (gen.outcome = "raised" /\ calls' = calls + 1) =>
             /\ gen'.pc = "sampling"
             /\ gen'.outcome = "none"
             /\ pipeline' = pipeline]_vars

\* the call after one in which the sampler raised has returned an image
C12_Witness ==
    /\ gen.after = "raised"
    /\ gen.outcome = "returned"
    /\ gen.image # NoImage

\* C13: when a generate_image call has returned or raised, the request
\* object has the field values it had when the call began.
C13_RequestUnchanged == CallEnded => props = gen.entry

\* the request object has been through a call that got to the prompt edits
Edited == gen.pc \in {"sampling", "done"} /\ gen.outcome # "rejected"

\* C14: the trailing-clause step is idempotent (applied to its own result
\* it changes nothing), and a request object that has been through any
\* number of generate_image calls holds the prompt it was built with,
\* followed by at most one " background.", and ends with "background.".
C14_ClauseAddedOnce ==
    Edited =>
        /\ AddClause(AddClause(gen.entry.prompt)) = AddClause(gen.entry.prompt)
        /\ AddClause(props.prompt) = props.prompt
        /\ EndsWith(props.prompt, Background)
        /\ props.prompt \in {made.prompt, made.prompt \o Clause}
        /\ EndsWith(made.prompt, Background) => props.prompt = made.prompt

\* the second call on one request object, whose prompt got the clause in
\* the first call, has returned
C14_Witness ==
    /\ calls = 2
    /\ CallEnded
    /\ gen.outcome = "returned"
    /\ ~EndsWith(made.prompt, Background)
    /\ gen.entry.prompt = made.prompt \o Clause
    /\ props.prompt = made.prompt \o Clause

\* C15: whenever the request carries an integer seed, 0 included, the
\* sampler is handed a generator seeded with it; it is handed no generator
\* only when the request carries no seed.
C15_SuppliedSeedSeeds ==
    Edited =>
        /\ gen.entry.seed.given =>
              gen.args.generator = ManualSeed(gen.entry.seed.value)
        /\ gen.args.generator = NoGenerator => ~gen.entry.seed.given

\* C16: when two generate_image calls on one loaded session were given the
\* same prompt, negative prompt, image, step count, scales and seed and both
\* returned, the sampler got the same arguments, a seeded generator among
\* them, and the two images are the same.
C16_SameInputsSameImage ==
    (/\ prev.valid
     /\ gen.outcome = "returned"
     /\ gen.entry.seed.given) =>
        /\ gen.args = prev.args
        /\ gen.args.generator.seeded
        /\ gen.image = prev.image

\* C17: within one generate_image call the callback is invoked with
\* strictly increasing step values, and with the request's
\* num_inference_steps as total_steps every time.
C17_ProgressIncreasing ==
    \A i \in 1..Len(gen.reported) :
        /\ gen.reported[i][2] = gen.entry.num_inference_steps
        /\ i > 1 => gen.reported[i - 1][1] < gen.reported[i][1]

\* a call of 20 steps or more has returned after several reports
C17_Witness ==
    /\ gen.callback
    /\ gen.outcome = "returned"
    /\ gen.entry.num_inference_steps >= 20
    /\ Len(gen.reported) >= 3

\* the step indices the callback has been invoked with
ReportedSteps == {gen.reported[i][1] : i \in 1..Len(gen.reported)}

\* one report per index
Stride(total) == IF total \div 10 >= 1 THEN total \div 10 ELSE 1

\* C18: in a call with a callback and S >= 1 steps, the callback has been
\* invoked, once each, for exactly those of the finished indices i that are
\* multiples of max(1, S div 10) or equal S - 1; when the call returns,
\* every index 0..S-1 is finished, so the last step has been reported.
C18_ReportedSteps ==
    LET S == gen.entry.num_inference_steps IN
    (Edited /\ gen.callback /\ S >= 1) =>
        /\ ReportedSteps =
              {i \in 0..(gen.step - 1) : i % Stride(S) = 0 \/ i = S - 1}
        /\ Cardinality(ReportedSteps) = Len(gen.reported)
        /\ gen.outcome = "returned" =>
              /\ gen.step = S
              /\ gen.reported[Len(gen.reported)][1] = S - 1

\* a call of 20 steps has returned: the last index, 19, is not a multiple
\* of the stride 2 and has been reported
C18_Witness ==
    /\ gen.callback
    /\ gen.outcome = "returned"
    /\ gen.entry.num_inference_steps = 20
    /\ Len(gen.reported) = 11
    /\ gen.reported[11] = <<19, 20>>

\* the latents after n denoising steps that nothing else touches
RECURSIVE DenoiseTimes(_, _)
DenoiseTimes(latents, n) ==
    IF n <= 0 THEN latents ELSE Denoise(DenoiseTimes(latents, n - 1))

\* the image of the sampler run on the same arguments and the same noise
\* with no callback at all
PlainImage(pipe, args, noise) ==
    Decode(pipe, args, DenoiseTimes(InitialLatents(noise), args.num_inference_steps))

\* C19: the image generate_image returns is the one the sampler gives for
\* the same arguments and noise when no callback looks at the latents: the
\* previews leave the latents as they are during the call, and of two calls
\* with the same request and seed, one with a callback and one without,
\* both return the same image.
C19_CallbackLeavesResult ==
    /\ Edited => gen.latents = DenoiseTimes(InitialLatents(gen.latents.noise), gen.step)
    /\ gen.outcome = "returned" =>
          gen.image = PlainImage(gen.image.pipe, gen.args, gen.latents.noise)
    /\ (/\ prev.valid
        /\ gen.outcome = "returned"
        /\ prev.callback # gen.callback
        /\ gen.args.generator.seeded) => gen.image = prev.image

\* a call with a callback that reported several steps has returned the
\* image of the call before it, which had the same request and no callback
C19_Witness ==
    /\ prev.valid
    /\ ~prev.callback
    /\ gen.callback
    /\ gen.outcome = "returned"
    /\ Len(gen.reported) >= 1
    /\ gen.args.generator.seeded
    /\ gen.image = prev.image

\* C20: a generate_image call whose request has num_inference_steps <= 0
\* is rejected before anything is done: the call ends at once, the prompts
\* are as they were and the sampler has not been given any arguments.
C20_NonPositiveStepsRejected ==
    (gen.pc \in {"sampling", "done"} /\ gen.entry.num_inference_steps <= 0) =>
        /\ gen.pc = "done"
        /\ gen.outcome = "rejected"
        /\ props = gen.entry
        /\ gen.args = NoArgs

----------------------------------------------------------------------------
(* The properties of change_scheduler.                                     *)

\* C21: a change_scheduler call changes nothing but the scheduler: on a
\* handler with a pipeline the pipeline keeps its model, its fidelity
\* encoder, its optimizations and its scheduler configuration, and the
\* scheduler becomes the one named (a name the handler does not have
\* raises and changes nothing); on a handler without a pipeline nothing
\* changes at all.  _setup_done and the load record are left alone.
C21_OnlySchedulerChanges ==
    [][changed'.count = changed.count + 1 =>
         /\ setup_done' = setup_done
         /\ loaded' = loaded
         /\ pipeline' = [pipeline EXCEPT !.scheduler = pipeline'.scheduler]
         /\ IF pipeline.loaded /\ changed'.scheduler_name \in SchedulerNames
            THEN pipeline'.scheduler = changed'.scheduler_name /\ ~changed'.raised
            ELSE pipeline' = pipeline
         /\ ~pipeline.loaded => ~changed'.raised]_vars

\* the scheduler of a loaded pipeline with its encoder attached has been
\* changed from the one it was loaded with
C21_Witness ==
    /\ changed.count >= 1
    /\ changed.scheduler_name = "Euler Ancestral"
    /\ loaded.ret
    /\ loaded.scheduler_name = "DDIM"
    /\ pipeline.loaded
    /\ pipeline.fidelity_mlp
    /\ pipeline.optimized
    /\ pipeline.scheduler = "Euler Ancestral"
    /\ pipeline.scheduler_config = loaded.model_path

----------------------------------------------------------------------------
(* The properties of the DoodlePix window.                                 *)

\* C22: no GenerationThread is started while another one is running
\* generate_image: whenever a thread is in the sampler, it is the only
\* GenerationThread there is.
C22_OneGenerationInFlight ==
    ui.sampling >= 1 => ui.started + ui.sampling = 1

\* C27: no ModelLoaderThread runs load_model while a GenerationThread runs
\* generate_image, and no two ModelLoaderThreads run load_model at once.
C27_LoaderRunsAlone ==
    /\ Len(ui.loaders) <= 1
    /\ ~(Len(ui.loaders) >= 1 /\ ui.sampling >= 1)

\* C28: whenever the generate button is disabled, it is enabled again
\* later, the worker threads running to their ends.
C28_ButtonEnabledAgain == (~ui.generate_btn) ~> ui.generate_btn

----------------------------------------------------------------------------
(* The properties of FidelityMLP.save_pretrained and from_pretrained.      *)

\* C23: a module loaded from the directory a module was saved to has the
\* saved module's hidden_size and parameter values, whatever the directory
\* held before, and so gives the same output for every input scalar
C23_SaveLoadRoundTrip ==
    (mlp.pc = "loaded" /\ mlp.saved) =>
        /\ mlp.result.raised = ""
        /\ mlp.result.module.hidden_size = mlp.module.hidden_size
        /\ mlp.result.module.params = mlp.module.params
        /\ \A x \in Scalars : Forward(mlp.result.module, x) = Forward(mlp.module, x)

\* a float16 module of hidden_size 2 was saved over the files of a module of
\* hidden_size 1 and loaded back
C23_Witness ==
    /\ mlp.pc = "loaded"
    /\ mlp.saved
    /\ mlp.module.hidden_size = 2
    /\ mlp.module.dtype = "float16"
    /\ mlp.module.params = <<1, 0>>
    /\ mlp.result.module.params = <<1, 0>>
    /\ mlp.result.raised = ""

\* C24: when fidelity_mlp/ is there but its config is missing, its weights
\* are missing or their shape disagrees with the config, from_pretrained
\* raises, and load_model on a directory with readable scheduler and
\* backbone still reports success, with a pipeline that has its
\* optimizations enabled and no encoder attached
C24_BrokenEncoderFallsBack ==
    (/\ loaded.called
     /\ setup_done
     /\ loaded.scheduler_name \in SchedulerNames
     /\ loaded.model_path.scheduler_ok
     /\ loaded.model_path.backbone_ok
     /\ loaded.model_path.fidelity \in {"config_missing", "weights_missing", "shape_mismatch"}) =>
        /\ MLPFromPretrained(FidelityStore(loaded.model_path.fidelity)).raised
               = loaded.model_path.fidelity
        /\ loaded.ret
        /\ pipeline.loaded
        /\ pipeline.model = loaded.model_path
        /\ pipeline.optimized
        /\ ~pipeline.fidelity_mlp

\* load_model has returned True for a directory whose encoder weights do
\* not have the shape its config announces
C24_Witness ==
    /\ loaded.called
    /\ loaded.model_path.fidelity = "shape_mismatch"
    /\ MLPFromPretrained(FidelityStore("shape_mismatch")).raised = "shape_mismatch"
    /\ loaded.ret
    /\ pipeline.loaded
    /\ ~pipeline.fidelity_mlp

----------------------------------------------------------------------------
(* Further properties of generate_image.                                   *)

RECURSIVE Copies(_, _)
Copies(s, k) == IF k = 0 THEN <<>> ELSE Copies(s, k - 1) \o s

\* C25: after k calls of generate_image that got past the guard with the
\* same request object, its negative_prompt is the one it was built with
\* followed by exactly k copies of the fixed negative terms
C25_NegativeTermsAccumulate ==
    props.negative_prompt = made.negative_prompt \o Copies(NegativeTerms, gen.uses)

\* the second call with one request object has returned: two copies follow
\* the negative prompt the caller wrote
C25_Witness ==
    /\ gen.uses = 2
    /\ gen.outcome = "returned"
    /\ made.negative_prompt = <<"b", "l", "u", "r">>
    /\ props.negative_prompt = made.negative_prompt \o NegativeTerms \o NegativeTerms

\* C26: a call of generate_image on a handler without a pipeline is
\* rejected before anything else: the request object, the handler and the
\* generator are as they were, nothing was handed to a sampler and the
\* callback was not invoked
C26_UnloadedCallRejected ==
    [][(calls' = calls + 1 /\ ~pipeline.loaded) =>
           /\ gen'.pc = "done"
           /\ gen'.outcome = "rejected"
           /\ props' = props
           /\ gen'.args = NoArgs
           /\ gen'.reported = <<>>
           /\ gen'.image = NoImage
           /\ torch_rng' = torch_rng
           /\ pipeline' = pipeline
           /\ setup_done' = setup_done]_vars

\* a call with a callback was rejected on a handler that load_model was
\* never called on; the request still has the prompt it was built with
C26_Witness ==
    /\ gen.pc = "done"
    /\ gen.outcome = "rejected"
    /\ gen.callback
    /\ ~loaded.called
    /\ ~pipeline.loaded
    /\ props = made
    /\ props.prompt = <<"f", "3">>
    /\ gen.reported = <<>>

----------------------------------------------------------------------------
(* The properties of the DrawingArea's undo history.                       *)

\* C29: the undo history always holds at least one and at most max_history
\* states, and the redo stack is empty right after a stroke, a clear or a
\* background load, the operations that save a state
C29_HistoryBounded ==
    /\ Len(area.history) >= 1
    /\ Len(area.history) <= max_history
    /\ area.last \in {"stroke", "clear", "load"} => area.redo_stack = <<>>

\* a stroke has been saved into a full history, whose oldest state, the
\* black canvas of the start, was dropped for it
C29_Witness ==
    /\ Len(area.history) = max_history
    /\ area.history[1] # Black
    /\ area.last = "stroke"
    /\ area.strokes > 0
    /\ area.redo_stack = <<>>

\* C30: an undo that follows a completed stroke shows the layer as it was
\* when the stroke began, and an undo that follows a redo shows the layer
\* that was shown before the redo
C30_UndoRevertsLastAction ==
    [][(area'.last = "undo" /\ area.last \in {"stroke", "redo"}) =>
           area'.layer = area.before]_vars

====
